---- MODULE Spec2Model ----
(***************************************************************************)
(* Model of the Antigravity fetch interceptor (fetch.ts): one interceptor  *)
(* instance created by createAntigravityFetch, the logical calls made on   *)
(* it, and the external collaborators it awaits (getAuth, the refresh      *)
(* routine, client.set, the project-context lookup, fetch).                *)
(*                                                                         *)
(* A logical call is a coroutine: it runs synchronously from one await to  *)
(* the next.  `running` names the call that is executing synchronous code  *)
(* (0 when none is); only that call can step, and the environment (time,   *)
(* the credential store, the caller's abort signal) moves only while every *)
(* call is suspended at an await.                                          *)
(*                                                                         *)
(* Values: an absent/empty string or number is the falsy value 0, "" or    *)
(* <<>>; an access or refresh token is a positive number; the stored       *)
(* refresh credential is the sequence of its "|"-separated fields.         *)
(***************************************************************************)
EXTENDS Integers, Sequences, FiniteSets, TLC

\* ---------------------------------------------------------------- bounds
MaxCalls == 2          \* call slots of the instance
MaxEndpoints == 4      \* longest endpoint list considered
MaxTicks == 2          \* how often the clock advances
TickMs == 1800000      \* one clock step, in ms
MaxCount == 2          \* history counters saturate here
MaxStatus == 650       \* largest vendor status classified

\* ------------------------------------------------------ program constants
EndpointCap == 3
DefaultLifetime == 3600
MsPerSec == 1000
RefreshBufferMs == 60000
SynthStatus == 503

Calls == 1..MaxCalls
NULL == "null"

Min(a, b) == IF a < b THEN a ELSE b

\* ------------------------------------------------------------- variables
VARIABLES
  pc,              \* per call: where the call is suspended or executing
  running,         \* the call executing synchronous code, 0 if none
  now,             \* Date.now()
  store,           \* the external credential store read by getAuth
  numEndpoints,    \* ANTIGRAVITY_ENDPOINT_FALLBACKS.length
  issued,          \* tokens issued so far by the refresh routine
  cachedTokens,    \* closure variable: <<>> (null) or <<tokens>>
  cachedProjectId, \* closure variable: NULL or a string
  auth,            \* per call: the value getAuth resolved to
  refreshParts,    \* per call: parseStoredToken(auth.refresh)
  projectId,       \* per call: const projectId
  idx,             \* per call: loop variable i
  aborted,         \* per call: init.signal.aborted
  setArg,          \* per call: the argument of the pending client.set
  result,          \* per call: the response returned or the error thrown
  attempts,        \* history, per call: the vendor requests issued
  refreshCalls,    \* history, per call: refreshAccessToken invocations
  lookupCalls,     \* history, per call: fetchProjectContext invocations
  refreshFailed,   \* history, per call: the refresh routine rejected
  ownToken,        \* history, per call: access token issued to this call
  stored,          \* history, per call: value this call wrote to the store
  startSnap,       \* history, per call: the caches when the call began
  cacheClears,     \* history: clearProjectContextCache invocations
  lookupsSinceRefresh, \* history: lookups since the last refresh
  projectEpoch,    \* history: value of issued when cachedProjectId was set
  cIn,             \* classification harness: the outcome of one attempt
  cOut,            \* classification harness: what attemptFetch returned
  pIn,             \* transformer harness: the arguments of one application
  pOut             \* transformer harness: what the application yielded

callVars == <<pc, auth, refreshParts, projectId, idx, aborted, setArg, result>>
hist == <<attempts, refreshCalls, lookupCalls, refreshFailed, ownToken, stored,
          startSnap, cacheClears, lookupsSinceRefresh, projectEpoch>>
inst == <<cachedTokens, cachedProjectId>>
envVars == <<now, store, numEndpoints, issued>>
harness == <<cIn, cOut, pIn, pOut>>
vars == <<callVars, running, hist, inst, envVars, harness>>

\* ------------------------------------------------------------ data shapes
NoAuth == [access |-> 0, refresh |-> <<>>, expires |-> 0]
NoParts == [refreshToken |-> 0, projectId |-> "", managedProjectId |-> ""]
NoResult == [kind |-> "none"]
NoSnap == <<<<>>, NULL>>
NoInput == [fn |-> "none"]
NoOutput == [fn |-> "none"]

NowStart == 2 * TickMs
NowEnd == (2 + MaxTicks) * TickMs

\* Stored refresh credentials the store may hold at first: absent, a bare
\* refresh token, a token with embedded project identifiers.
InitRefresh == { <<>>, <<1, "", "">>, <<1, "pE", "mE">> }
\* Expiry stamps the store may hold at first: absent, past, one hour ahead.
InitExpires == { 0, TickMs, NowStart + 2 * TickMs }
\* What the project-context lookup may yield.
LookupResults == { "", "p1" }
\* What a live vendor request may come to when it is not cancelled.
VendorStatuses == { 200, 404, 429, 500 }

\* ------------------------------------------------------- pure operators
\* isRetryableError without the rate-limit case.
isRetryableErrorMut(status) ==
  \/ status = 0
  \/ (status >= 500 /\ status < 600)

isRetryableError(status) ==
  \/ status = 0
  \/ status = 429
  \/ (status >= 500 /\ status < 600)

ResponseOk(status) == status >= 200 /\ status <= 299

\* attemptFetch's verdict on what fetch came to: "null" (try the next
\* endpoint) or "response".  A rejected fetch promise is a network failure
\* ("neterr") or the caller's signal aborting the request ("abort").
threw(o) == o.kind \in {"neterr", "abort"}

\* attemptFetch handing back every response the vendor gave.
attemptVerdictMut(o) ==
  IF threw(o) THEN "null" ELSE "response"

attemptVerdict(o) ==
  IF threw(o) THEN "null"
  ELSE IF ~ResponseOk(o.status) /\ isRetryableError(o.status) THEN "null"
  ELSE "response"

\* maxEndpoints without the cap.
maxEndpointsOfMut(n) == n

maxEndpointsOf(n) == Min(n, EndpointCap)

\* Every attempt going to the first endpoint.
endpointAtMut(i) == 1

\* ANTIGRAVITY_ENDPOINT_FALLBACKS[i]: the list is <<1, 2, ..., numEndpoints>>,
\* each endpoint named by its position.
endpointAt(i) == i + 1

\* The credential check looking at the access value only.
authMissingMut(a) == a.access = 0

authMissing(a) == a.access = 0 \/ a.refresh = <<>>

parseStoredToken(s) ==
  [refreshToken |-> IF Len(s) >= 1 THEN s[1] ELSE 0,
   projectId |-> IF Len(s) >= 2 THEN s[2] ELSE "",
   managedProjectId |-> IF Len(s) >= 3 THEN s[3] ELSE ""]

formatTokenForStorage(rt, pid, mpid) == <<rt, pid, mpid>>

isTokenExpired(t, time) ==
  time >= t.timestamp + t.expires_in * MsPerSec - RefreshBufferMs

seedTokens(a, parts, time) ==
  [access_token |-> a.access,
   refresh_token |-> parts.refreshToken,
   expires_in |-> IF a.expires # 0 THEN (a.expires - time) \div MsPerSec
                  ELSE DefaultLifetime,
   timestamp |-> IF a.expires # 0 THEN a.expires - DefaultLifetime * MsPerSec
                 ELSE time]

transformResponseWithThinking(r) ==
  [kind |-> "response", status |-> r.status, endpoint |-> r.endpoint,
   synthesized |-> FALSE, type |-> "", code |-> "", n |-> 0]

\* The exhaustion message counting the configured endpoints.
exhaustedResponseMut(n) ==
  [kind |-> "response", status |-> SynthStatus, endpoint |-> 0,
   synthesized |-> TRUE, type |-> "endpoint_failure",
   code |-> "all_endpoints_failed", n |-> numEndpoints]

exhaustedResponse(n) ==
  [kind |-> "response", status |-> SynthStatus, endpoint |-> 0,
   synthesized |-> TRUE, type |-> "endpoint_failure",
   code |-> "all_endpoints_failed", n |-> n]

thrown(name) == [kind |-> "error", name |-> name]

Bump(k) == Min(k + 1, MaxCount)

\* ------------------------------------------------------------------ Init
InitCalls ==
  /\ pc = [c \in Calls |-> "idle"]
  /\ running = 0
  /\ auth = [c \in Calls |-> NoAuth]
  /\ refreshParts = [c \in Calls |-> NoParts]
  /\ projectId = [c \in Calls |-> ""]
  /\ idx = [c \in Calls |-> 0]
  /\ aborted = [c \in Calls |-> FALSE]
  /\ setArg = [c \in Calls |-> NoAuth]
  /\ result = [c \in Calls |-> NoResult]
  /\ attempts = [c \in Calls |-> <<>>]
  /\ refreshCalls = [c \in Calls |-> 0]
  /\ lookupCalls = [c \in Calls |-> 0]
  /\ refreshFailed = [c \in Calls |-> FALSE]
  /\ ownToken = [c \in Calls |-> 0]
  /\ stored = [c \in Calls |-> NoAuth]
  /\ startSnap = [c \in Calls |-> NoSnap]
  /\ cacheClears = 0
  /\ lookupsSinceRefresh = 0
  /\ projectEpoch = 0
  /\ cachedTokens = <<>>
  /\ cachedProjectId = NULL
  /\ issued = 0
  /\ now = NowStart

Init ==
  /\ InitCalls
  /\ numEndpoints \in 0..MaxEndpoints
  /\ store \in [access : {0, 1}, refresh : InitRefresh, expires : InitExpires]
  /\ cIn = [kind |-> "none", status |-> 0]
  /\ cOut = "none"
  /\ pIn = NoInput
  /\ pOut = NoOutput

\* --------------------------------------------------------------- actions
\* The caller invokes the interceptor: the call runs to `await getAuth()`.
Call(c) ==
  /\ pc[c] = "idle"
  /\ running = 0
  /\ \A d \in Calls : pc[d] = "idle"
  /\ pc' = [pc EXCEPT ![c] = "getAuth"]
  /\ startSnap' = [startSnap EXCEPT ![c] = <<cachedTokens, cachedProjectId>>]
  /\ UNCHANGED <<auth, refreshParts, projectId, idx, aborted, setArg, result,
                 running, attempts, refreshCalls, lookupCalls, refreshFailed,
                 ownToken, stored, cacheClears, lookupsSinceRefresh,
                 projectEpoch, inst, envVars, harness>>

\* getAuth resolves; the credentials are checked.
GetAuth(c) ==
  /\ pc[c] = "getAuth"
  /\ running = 0
  /\ auth' = [auth EXCEPT ![c] = store]
  /\ IF authMissing(store)
       THEN /\ pc' = [pc EXCEPT ![c] = "thrown"]
            /\ result' = [result EXCEPT ![c] = thrown("AuthMissing")]
            /\ UNCHANGED running
       ELSE /\ pc' = [pc EXCEPT ![c] = "seed"]
            /\ running' = c
            /\ UNCHANGED result
  /\ UNCHANGED <<refreshParts, projectId, idx, aborted, setArg, hist, inst,
                 envVars, harness>>

\* Lines 218-233: decode the stored refresh credential, seed or update the
\* cached token state.
SeedTokens(c) ==
  /\ pc[c] = "seed"
  /\ running = c
  /\ LET parts == parseStoredToken(auth[c].refresh) IN
       /\ refreshParts' = [refreshParts EXCEPT ![c] = parts]
       /\ cachedTokens' =
            IF cachedTokens = <<>>
              THEN << seedTokens(auth[c], parts, now) >>
              ELSE << [cachedTokens[1] EXCEPT
                         !.access_token = auth[c].access,
                         !.refresh_token = parts.refreshToken] >>
  /\ pc' = [pc EXCEPT ![c] = "checkExpiry"]
  /\ UNCHANGED <<auth, projectId, idx, aborted, setArg, result, running, hist,
                 cachedProjectId, envVars, harness>>

\* Lines 236-240: refresh only if the cached token is expired.
CheckExpiry(c) ==
  /\ pc[c] = "checkExpiry"
  /\ running = c
  /\ IF isTokenExpired(cachedTokens[1], now)
       THEN /\ pc' = [pc EXCEPT ![c] = "refresh"]
            /\ running' = 0
            /\ refreshCalls' = [refreshCalls EXCEPT ![c] = Bump(@)]
       ELSE /\ pc' = [pc EXCEPT ![c] = "project"]
            /\ UNCHANGED <<running, refreshCalls>>
  /\ UNCHANGED <<auth, refreshParts, projectId, idx, aborted, setArg, result,
                 attempts, lookupCalls, refreshFailed, ownToken, stored,
                 startSnap, cacheClears, lookupsSinceRefresh, projectEpoch,
                 inst, envVars, harness>>

\* The refresh storing the new refresh token without the project fields.
RefreshOkMut(c) ==
  /\ pc[c] = "refresh"
  /\ running = 0
  /\ LET newAccess == issued + 2
         newRefresh == issued + 2
         parts == refreshParts[c]
     IN
       /\ cachedTokens' = << [access_token |-> newAccess,
                              refresh_token |-> newRefresh,
                              expires_in |-> DefaultLifetime,
                              timestamp |-> now] >>
       /\ setArg' = [setArg EXCEPT ![c] =
            [access |-> newAccess,
             refresh |-> formatTokenForStorage(newRefresh, "", ""),
             expires |-> now + DefaultLifetime * MsPerSec]]
       /\ ownToken' = [ownToken EXCEPT ![c] = newAccess]
  /\ issued' = issued + 1
  /\ cacheClears' = Bump(cacheClears)
  /\ lookupsSinceRefresh' = 0
  /\ pc' = [pc EXCEPT ![c] = "set"]
  /\ UNCHANGED <<auth, refreshParts, projectId, idx, aborted, result, running,
                 attempts, refreshCalls, lookupCalls, refreshFailed, stored,
                 startSnap, projectEpoch, cachedProjectId, now, store,
                 numEndpoints, harness>>

\* Lines 240-265: the refresh routine resolves with newly issued tokens; the
\* cache is replaced, the project-context cache is cleared and client.set
\* is invoked.
RefreshOk(c) ==
  /\ pc[c] = "refresh"
  /\ running = 0
  /\ LET newAccess == issued + 2
         newRefresh == issued + 2
         parts == refreshParts[c]
     IN
       /\ cachedTokens' = << [access_token |-> newAccess,
                              refresh_token |-> newRefresh,
                              expires_in |-> DefaultLifetime,
                              timestamp |-> now] >>
       /\ setArg' = [setArg EXCEPT ![c] =
            [access |-> newAccess,
             refresh |-> formatTokenForStorage(newRefresh, parts.projectId,
                                               parts.managedProjectId),
             expires |-> now + DefaultLifetime * MsPerSec]]
       /\ ownToken' = [ownToken EXCEPT ![c] = newAccess]
  /\ issued' = issued + 1
  /\ cacheClears' = Bump(cacheClears)
  /\ lookupsSinceRefresh' = 0
  /\ pc' = [pc EXCEPT ![c] = "set"]
  /\ UNCHANGED <<auth, refreshParts, projectId, idx, aborted, result, running,
                 attempts, refreshCalls, lookupCalls, refreshFailed, stored,
                 startSnap, projectEpoch, cachedProjectId, now, store,
                 numEndpoints, harness>>

\* A rejected refresh swallowed: the call goes on with the expired token.
RefreshFailMut(c) ==
  /\ pc[c] = "refresh"
  /\ running = 0
  /\ pc' = [pc EXCEPT ![c] = "project"]
  /\ running' = c
  /\ refreshFailed' = [refreshFailed EXCEPT ![c] = TRUE]
  /\ UNCHANGED <<auth, refreshParts, projectId, idx, aborted, setArg, result,
                 attempts, refreshCalls, lookupCalls, ownToken, stored,
                 startSnap, cacheClears, lookupsSinceRefresh, projectEpoch,
                 inst, envVars, harness>>

\* Lines 268-272: the refresh routine rejects.
RefreshFail(c) ==
  /\ pc[c] = "refresh"
  /\ running = 0
  /\ pc' = [pc EXCEPT ![c] = "thrown"]
  /\ result' = [result EXCEPT ![c] = thrown("RefreshFailure")]
  /\ refreshFailed' = [refreshFailed EXCEPT ![c] = TRUE]
  /\ UNCHANGED <<auth, refreshParts, projectId, idx, aborted, setArg, running,
                 attempts, refreshCalls, lookupCalls, ownToken, stored,
                 startSnap, cacheClears, lookupsSinceRefresh, projectEpoch,
                 inst, envVars, harness>>

\* Lines 261-267: client.set resolves; the store holds the new credentials.
SetOk(c) ==
  /\ pc[c] = "set"
  /\ running = 0
  /\ store' = setArg[c]
  /\ stored' = [stored EXCEPT ![c] = setArg[c]]
  /\ pc' = [pc EXCEPT ![c] = "project"]
  /\ running' = c
  /\ UNCHANGED <<auth, refreshParts, projectId, idx, aborted, setArg, result,
                 attempts, refreshCalls, lookupCalls, refreshFailed, ownToken,
                 startSnap, cacheClears, lookupsSinceRefresh, projectEpoch,
                 inst, now, numEndpoints, issued, harness>>

\* A failed store write answered by invoking the refresh routine again.
SetFailMut(c) ==
  /\ pc[c] = "set"
  /\ running = 0
  /\ pc' = [pc EXCEPT ![c] = "refresh"]
  /\ refreshCalls' = [refreshCalls EXCEPT ![c] = Bump(@)]
  /\ UNCHANGED <<auth, refreshParts, projectId, idx, aborted, setArg, result,
                 running, attempts, lookupCalls, refreshFailed, ownToken,
                 stored, startSnap, cacheClears, lookupsSinceRefresh,
                 projectEpoch, inst, envVars, harness>>

\* Lines 261, 268-272: client.set rejects.
SetFail(c) ==
  /\ pc[c] = "set"
  /\ running = 0
  /\ pc' = [pc EXCEPT ![c] = "thrown"]
  /\ result' = [result EXCEPT ![c] = thrown("RefreshFailure")]
  /\ UNCHANGED <<auth, refreshParts, projectId, idx, aborted, setArg, running,
                 hist, inst, envVars, harness>>

\* Lines 276-277: look the project up unless a (truthy) id is cached.
ResolveProject(c) ==
  /\ pc[c] = "project"
  /\ running = c
  /\ IF cachedProjectId = NULL \/ cachedProjectId = ""
       THEN /\ pc' = [pc EXCEPT ![c] = "lookup"]
            /\ running' = 0
            /\ lookupCalls' = [lookupCalls EXCEPT ![c] = Bump(@)]
            /\ lookupsSinceRefresh' = Bump(lookupsSinceRefresh)
       ELSE /\ pc' = [pc EXCEPT ![c] = "loopInit"]
            /\ UNCHANGED <<running, lookupCalls, lookupsSinceRefresh>>
  /\ UNCHANGED <<auth, refreshParts, projectId, idx, aborted, setArg, result,
                 attempts, refreshCalls, refreshFailed, ownToken, stored,
                 startSnap, cacheClears, projectEpoch, inst, envVars, harness>>

\* Lines 277-278: the lookup resolves with project id p ("" when it has none).
LookupReturn(c, p) ==
  /\ pc[c] = "lookup"
  /\ running = 0
  /\ cachedProjectId' = p
  /\ projectEpoch' = issued
  /\ pc' = [pc EXCEPT ![c] = "loopInit"]
  /\ running' = c
  /\ UNCHANGED <<auth, refreshParts, projectId, idx, aborted, setArg, result,
                 attempts, refreshCalls, lookupCalls, refreshFailed, ownToken,
                 stored, startSnap, cacheClears, lookupsSinceRefresh,
                 cachedTokens, envVars, harness>>

\* The loop entered with the looked-up id ahead of the embedded one.
EnterLoopMut(c) ==
  /\ pc[c] = "loopInit"
  /\ running = c
  /\ projectId' = [projectId EXCEPT ![c] =
       IF cachedProjectId # "" THEN cachedProjectId
       ELSE refreshParts[c].projectId]
  /\ idx' = [idx EXCEPT ![c] = 0]
  /\ pc' = [pc EXCEPT ![c] = "loop"]
  /\ UNCHANGED <<auth, refreshParts, aborted, setArg, result, running, hist,
                 inst, envVars, harness>>

\* Lines 282-303: choose the project id, enter the endpoint loop.
EnterLoop(c) ==
  /\ pc[c] = "loopInit"
  /\ running = c
  /\ projectId' = [projectId EXCEPT ![c] =
       IF refreshParts[c].projectId # "" THEN refreshParts[c].projectId
       ELSE cachedProjectId]
  /\ idx' = [idx EXCEPT ![c] = 0]
  /\ pc' = [pc EXCEPT ![c] = "loop"]
  /\ UNCHANGED <<auth, refreshParts, aborted, setArg, result, running, hist,
                 inst, envVars, harness>>

\* The attempt carrying the access value read from the store.
attemptTokenMut(c) == auth[c].access

\* The access token handed to attemptFetch: read from the cache at each
\* iteration of the loop.
attemptToken(c) == cachedTokens[1].access_token

\* The loop issuing a request and going on to the next endpoint without
\* waiting for the answer.
LoopStepMut(c) ==
  /\ pc[c] = "loop"
  /\ running = c
  /\ IF idx[c] < maxEndpointsOf(numEndpoints)
       THEN /\ attempts' = [attempts EXCEPT ![c] = Append(@,
                 [endpoint |-> endpointAt(idx[c]),
                  token |-> attemptToken(c),
                  project |-> projectId[c],
                  out |-> [kind |-> "pending", status |-> 0]])]
            /\ idx' = [idx EXCEPT ![c] = @ + 1]
            /\ UNCHANGED <<pc, running, result>>
       ELSE /\ result' = [result EXCEPT ![c] =
                 exhaustedResponse(maxEndpointsOf(numEndpoints))]
            /\ pc' = [pc EXCEPT ![c] = "returned"]
            /\ running' = 0
            /\ UNCHANGED <<attempts, idx>>
  /\ UNCHANGED <<auth, refreshParts, projectId, aborted, setArg,
                 refreshCalls, lookupCalls, refreshFailed, ownToken, stored,
                 startSnap, cacheClears, lookupsSinceRefresh, projectEpoch,
                 inst, envVars, harness>>

\* Lines 303-313 and 73-114: while i < maxEndpoints issue the request to
\* endpoint i with the cached access token; lines 323-341 once exhausted.
LoopStep(c) ==
  /\ pc[c] = "loop"
  /\ running = c
  /\ running' = 0
  /\ IF idx[c] < maxEndpointsOf(numEndpoints)
       THEN /\ attempts' = [attempts EXCEPT ![c] = Append(@,
                 [endpoint |-> endpointAt(idx[c]),
                  token |-> attemptToken(c),
                  project |-> projectId[c],
                  out |-> [kind |-> "pending", status |-> 0]])]
            /\ pc' = [pc EXCEPT ![c] = "fetch"]
            /\ UNCHANGED result
       ELSE /\ result' = [result EXCEPT ![c] =
                 exhaustedResponse(maxEndpointsOf(numEndpoints))]
            /\ pc' = [pc EXCEPT ![c] = "returned"]
            /\ UNCHANGED attempts
  /\ UNCHANGED <<auth, refreshParts, projectId, idx, aborted, setArg,
                 refreshCalls, lookupCalls, refreshFailed, ownToken, stored,
                 startSnap, cacheClears, lookupsSinceRefresh, projectEpoch,
                 inst, envVars, harness>>

\* What the pending fetch of call c may come to: with the signal aborted it
\* rejects; otherwise the network fails or the vendor answers.
Outcomes(c) ==
  IF aborted[c] THEN { [kind |-> "abort", status |-> 0] }
  ELSE { [kind |-> "neterr", status |-> 0] }
       \cup { [kind |-> "response", status |-> s] : s \in VendorStatuses }

\* A failed attempt asked again of the same endpoint instead of moving on.
FetchSettleMut(c, o) ==
  /\ pc[c] = "fetch"
  /\ running = 0
  /\ o \in Outcomes(c)
  /\ attempts' = [attempts EXCEPT ![c][Len(attempts[c])].out = o]
  /\ IF attemptVerdict(o) = "null"
       THEN UNCHANGED <<idx, pc, running, result>>
       ELSE /\ result' = [result EXCEPT ![c] =
                 transformResponseWithThinking(
                   [status |-> o.status,
                    endpoint |-> attempts[c][Len(attempts[c])].endpoint])]
            /\ pc' = [pc EXCEPT ![c] = "returned"]
            /\ UNCHANGED <<idx, running>>
  /\ UNCHANGED <<auth, refreshParts, projectId, aborted, setArg, refreshCalls,
                 lookupCalls, refreshFailed, ownToken, stored, startSnap,
                 cacheClears, lookupsSinceRefresh, projectEpoch, inst,
                 envVars, harness>>

\* Lines 109-129 and 315-321: the fetch settles as o.
FetchSettle(c, o) ==
  /\ pc[c] = "fetch"
  /\ running = 0
  /\ o \in Outcomes(c)
  /\ attempts' = [attempts EXCEPT ![c][Len(attempts[c])].out = o]
  /\ IF attemptVerdict(o) = "null"
       THEN /\ idx' = [idx EXCEPT ![c] = @ + 1]
            /\ pc' = [pc EXCEPT ![c] = "loop"]
            /\ running' = c
            /\ UNCHANGED result
       ELSE /\ result' = [result EXCEPT ![c] =
                 transformResponseWithThinking(
                   [status |-> o.status,
                    endpoint |-> attempts[c][Len(attempts[c])].endpoint])]
            /\ pc' = [pc EXCEPT ![c] = "returned"]
            /\ UNCHANGED <<idx, running>>
  /\ UNCHANGED <<auth, refreshParts, projectId, aborted, setArg, refreshCalls,
                 lookupCalls, refreshFailed, ownToken, stored, startSnap,
                 cacheClears, lookupsSinceRefresh, projectEpoch, inst,
                 envVars, harness>>

\* The caller has taken the response or the error; the slot is free again.
Finish(c) ==
  /\ pc[c] \in {"returned", "thrown"}
  /\ running = 0
  /\ pc' = [pc EXCEPT ![c] = "idle"]
  /\ auth' = [auth EXCEPT ![c] = NoAuth]
  /\ refreshParts' = [refreshParts EXCEPT ![c] = NoParts]
  /\ projectId' = [projectId EXCEPT ![c] = ""]
  /\ idx' = [idx EXCEPT ![c] = 0]
  /\ aborted' = [aborted EXCEPT ![c] = FALSE]
  /\ setArg' = [setArg EXCEPT ![c] = NoAuth]
  /\ result' = [result EXCEPT ![c] = NoResult]
  /\ attempts' = [attempts EXCEPT ![c] = <<>>]
  /\ refreshCalls' = [refreshCalls EXCEPT ![c] = 0]
  /\ lookupCalls' = [lookupCalls EXCEPT ![c] = 0]
  /\ refreshFailed' = [refreshFailed EXCEPT ![c] = FALSE]
  /\ ownToken' = [ownToken EXCEPT ![c] = 0]
  /\ stored' = [stored EXCEPT ![c] = NoAuth]
  /\ startSnap' = [startSnap EXCEPT ![c] = NoSnap]
  /\ UNCHANGED <<running, cacheClears, lookupsSinceRefresh, projectEpoch,
                 inst, envVars, harness>>

\* The caller aborts the signal it passed in init.signal.
Abort(c) ==
  /\ pc[c] \notin {"idle", "returned", "thrown"}
  /\ running = 0
  /\ ~aborted[c]
  /\ aborted' = [aborted EXCEPT ![c] = TRUE]
  /\ UNCHANGED <<pc, auth, refreshParts, projectId, idx, setArg, result,
                 running, hist, inst, envVars, harness>>

\* Time passes.
Tick ==
  /\ running = 0
  /\ now < NowEnd
  /\ now' = now + TickMs
  /\ UNCHANGED <<callVars, running, hist, inst, store, numEndpoints, issued,
                 harness>>

\* The credentials are removed from the store outside the interceptor,
\* between two calls.
Logout ==
  /\ running = 0
  /\ \A c \in Calls : pc[c] = "idle"
  /\ store # NoAuth
  /\ store' = NoAuth
  /\ UNCHANGED <<callVars, running, hist, inst, now, numEndpoints, issued,
                 harness>>

Next ==
  \/ \E c \in Calls : Call(c)
  \/ \E c \in Calls : GetAuth(c)
  \/ \E c \in Calls : SeedTokens(c)
  \/ \E c \in Calls : CheckExpiry(c)
  \/ \E c \in Calls : RefreshOk(c)
  \/ \E c \in Calls : RefreshFail(c)
  \/ \E c \in Calls : SetOk(c)
  \/ \E c \in Calls : SetFail(c)
  \/ \E c \in Calls : ResolveProject(c)
  \/ \E c \in Calls, p \in LookupResults : LookupReturn(c, p)
  \/ \E c \in Calls : EnterLoop(c)
  \/ \E c \in Calls : LoopStep(c)
  \/ \E c \in Calls : \E o \in Outcomes(c) : FetchSettle(c, o)
  \/ \E c \in Calls : Finish(c)
  \/ \E c \in Calls : Abort(c)
  \/ Tick
  \/ Logout

Spec == Init /\ [][Next]_vars

\* ---------------------------------------------------------- fair calls
\* The next step of call c, whatever it is: the continuation after an
\* external call that has settled, or synchronous code running on.
CallStep(c) ==
  \/ GetAuth(c)
  \/ SeedTokens(c)
  \/ CheckExpiry(c)
  \/ RefreshOk(c)
  \/ RefreshFail(c)
  \/ SetOk(c)
  \/ SetFail(c)
  \/ ResolveProject(c)
  \/ \E p \in LookupResults : LookupReturn(c, p)
  \/ EnterLoop(c)
  \/ LoopStep(c)
  \/ \E o \in Outcomes(c) : FetchSettle(c, o)

\* Calls made one after another at one instant of the clock, each of
\* which the caller may abort.
NextFair ==
  \/ \E c \in Calls : Call(c)
  \/ \E c \in Calls : CallStep(c)
  \/ \E c \in Calls : Finish(c)
  \/ \E c \in Calls : Abort(c)

\* Every external call settles and the event loop runs each continuation:
\* a call that can take a step does not wait for ever.  Nothing obliges the
\* caller to call, to take the result or to abort.
SpecFair ==
  Init /\ [][NextFair]_vars /\ \A c \in Calls : WF_vars(CallStep(c))

\* ------------------------------------------------------ concurrent calls
\* Bound on the callers that invoke the interceptor concurrently.
MaxConc == 2

ConcCalls == 1..MaxConc

\* Stored refresh credentials: the bare token, and the token with a
\* project id, a managed project id, both or neither after it.
ConcRefresh ==
  { <<1>>, <<1, "pE">>, <<1, "", "">>, <<1, "", "mE">>, <<1, "pE", "mE">> }

\* Credentials are stored; their expiry has passed or is still ahead.
InitConc ==
  /\ InitCalls
  /\ numEndpoints \in 0..1
  /\ store \in [access : {1}, refresh : ConcRefresh,
                expires : {TickMs, NowStart + 2 * TickMs}]
  /\ cIn = [kind |-> "none", status |-> 0]
  /\ cOut = "none"
  /\ pIn = NoInput
  /\ pOut = NoOutput

\* The caller invokes the interceptor while other calls may be in progress:
\* nothing in the interceptor makes a call wait for another.
CallConc(c) ==
  /\ c \in ConcCalls
  /\ pc[c] = "idle"
  /\ running = 0
  /\ pc' = [pc EXCEPT ![c] = "getAuth"]
  /\ startSnap' = [startSnap EXCEPT ![c] = <<cachedTokens, cachedProjectId>>]
  /\ UNCHANGED <<auth, refreshParts, projectId, idx, aborted, setArg, result,
                 running, attempts, refreshCalls, lookupCalls, refreshFailed,
                 ownToken, stored, cacheClears, lookupsSinceRefresh,
                 projectEpoch, inst, envVars, harness>>

NextConc ==
  \/ \E c \in Calls : CallConc(c)
  \/ \E c \in Calls : GetAuth(c)
  \/ \E c \in Calls : SeedTokens(c)
  \/ \E c \in Calls : CheckExpiry(c)
  \/ \E c \in Calls : RefreshOk(c)
  \/ \E c \in Calls : RefreshFail(c)
  \/ \E c \in Calls : SetOk(c)
  \/ \E c \in Calls : SetFail(c)
  \/ \E c \in Calls : ResolveProject(c)
  \/ \E c \in Calls, p \in LookupResults : LookupReturn(c, p)
  \/ \E c \in Calls : EnterLoop(c)
  \/ \E c \in Calls : LoopStep(c)
  \/ \E c \in Calls : \E o \in Outcomes(c) : FetchSettle(c, o)

SpecConc == InitConc /\ [][NextConc]_vars

\* ------------------------------------------- classification of one attempt
\* What one attempt may come to: a rejected fetch, or a response with any
\* status up to MaxStatus.
ClassifyInputs ==
  { [kind |-> "neterr", status |-> 0], [kind |-> "abort", status |-> 0] }
  \cup { [kind |-> "response", status |-> s] : s \in 0..MaxStatus }

InitClassify ==
  /\ InitCalls
  /\ numEndpoints = 0
  /\ store = NoAuth
  /\ cIn \in ClassifyInputs
  /\ cOut = "none"
  /\ pIn = NoInput
  /\ pOut = NoOutput

\* Lines 116-129: attemptFetch returns null or the response.
Classify ==
  /\ cOut = "none"
  /\ cOut' = attemptVerdict(cIn)
  /\ UNCHANGED <<callVars, running, hist, inst, envVars, cIn, pIn, pOut>>

SpecClassify == InitClassify /\ [][Classify]_vars

\* --------------------------------------------------- request transformer
\* A value of the request body: its JavaScript type and its content.
Val(t, v) == [t |-> t, v |-> v]

BodyKeys == {"model", "stream", "tools", "messages"}

\* The values a key of the request body is given: model names with and
\* without surrounding blanks, blank, empty and not a string; stream flags
\* true, false and the string "true"; a tools array, an empty one and a
\* tools value that is no array.
ValuesOf(k) ==
  CASE k = "model" -> { Val("string", "mB"), Val("string", " mB "),
                        Val("string", " "), Val("string", ""),
                        Val("number", "7") }
    [] k = "stream" -> { Val("boolean", "true"), Val("boolean", "false"),
                         Val("string", "true") }
    [] k = "tools" -> { Val("array", "t1"), Val("array", ""),
                        Val("object", "t1") }
    [] k = "messages" -> { Val("array", "m1") }

Bodies ==
  UNION { { f \in [D -> UNION { ValuesOf(k) : k \in D }] :
              \A k \in D : f[k] \in ValuesOf(k) } : D \in SUBSET BodyKeys }

\* Request URLs: without the /models/{model}:{action} pattern, and with it.
Urls ==
  { [pattern |-> FALSE, model |-> "", action |-> ""] }
  \cup { [pattern |-> TRUE, model |-> "mU", action |-> a] :
           a \in {"generateContent", "streamGenerateContent", "countTokens"} }

FallbackModel == "gemini-3-pro-preview"
StreamAction == "streamGenerateContent"
PlainAction == "generateContent"

\* String.prototype.trim on the model names above.
trim(str) ==
  IF str = " mB " THEN "mB" ELSE IF str = " " THEN "" ELSE str

\* "" stands for undefined in the three extractors.
extractModelFromBody(body) ==
  IF /\ "model" \in DOMAIN body
     /\ body["model"].t = "string"
     /\ trim(body["model"].v) # ""
    THEN trim(body["model"].v)
    ELSE ""

extractModelFromUrl(url) ==
  IF url.pattern /\ url.model # "" THEN url.model ELSE ""

extractActionFromUrl(url) ==
  IF url.pattern /\ url.action # "" THEN url.action ELSE ""

\* The model resolved with the URL segment ahead of the body field.
effectiveModelMut(modelName, body, url) ==
  IF modelName # "" THEN modelName
  ELSE IF extractModelFromUrl(url) # "" THEN extractModelFromUrl(url)
  ELSE IF extractModelFromBody(body) # "" THEN extractModelFromBody(body)
  ELSE FallbackModel

\* Lines 205-206 of the request transformer.
effectiveModel(modelName, body, url) ==
  IF modelName # "" THEN modelName
  ELSE IF extractModelFromBody(body) # "" THEN extractModelFromBody(body)
  ELSE IF extractModelFromUrl(url) # "" THEN extractModelFromUrl(url)
  ELSE FallbackModel

\* Streaming detected from any truthy stream value.
isStreamingRequestMut(url, body) ==
  \/ extractActionFromUrl(url) = StreamAction
  \/ "stream" \in DOMAIN body /\ body["stream"] # Val("boolean", "false")

isStreamingRequest(url, body) ==
  \/ extractActionFromUrl(url) = StreamAction
  \/ "stream" \in DOMAIN body /\ body["stream"] = Val("boolean", "true")

buildAntigravityUrl(baseEndpoint, action, streaming) ==
  [endpoint |-> baseEndpoint, path |-> "ANTIGRAVITY_API_VERSION",
   action |-> action, query |-> IF streaming THEN "?alt=sse" ELSE ""]

buildRequestHeaders(accessToken) ==
  [h \in {"Authorization", "Content-Type", "User-Agent", "X-Goog-Api-Client",
          "Client-Metadata"} |->
     CASE h = "Authorization" -> accessToken
       [] h = "Content-Type" -> "application/json"
       [] OTHER -> "ANTIGRAVITY_HEADERS"]

getDefaultEndpoint == endpointAt(0)

\* The wrapper keeping the model key inside the inner request.
wrapRequestBodyMut(body, project, modelName) ==
  [project |-> project, model |-> modelName, request |-> body]

wrapRequestBody(body, project, modelName) ==
  [project |-> project,
   model |-> modelName,
   request |-> [k \in DOMAIN body \ {"model"} |-> body[k]]]

\* endpointOverride = 0 stands for an absent override.
transformRequest(url, body, accessToken, project, modelName, endpointOverride) ==
  LET streaming == isStreamingRequest(url, body)
      action == IF streaming THEN StreamAction ELSE PlainAction
      endpoint == IF endpointOverride # 0 THEN endpointOverride
                  ELSE getDefaultEndpoint
      base == buildRequestHeaders(accessToken)
  IN
    [url |-> buildAntigravityUrl(endpoint, action, streaming),
     headers |-> IF streaming
                   THEN [h \in DOMAIN base \cup {"Accept"} |->
                           IF h = "Accept" THEN "text/event-stream"
                           ELSE base[h]]
                   ELSE base,
     body |-> wrapRequestBody(body, project,
                              effectiveModel(modelName, body, url)),
     streaming |-> streaming]

RequestInputs ==
  [fn : {"transformRequest"}, url : Urls, body : Bodies,
   accessToken : {"tok"}, project : {"", "p1"}, modelName : {"", "mA", " "},
   endpoint : {0, 2}]

InitRequest ==
  /\ InitCalls
  /\ numEndpoints = 0
  /\ store = NoAuth
  /\ cIn = [kind |-> "none", status |-> 0]
  /\ cOut = "none"
  /\ pIn \in RequestInputs
  /\ pOut = NoOutput

\* transformRequest is applied to the arguments drawn.
ApplyTransformRequest ==
  /\ pIn.fn = "transformRequest"
  /\ pOut = NoOutput
  /\ pOut' = [fn |-> "transformRequest",
              out |-> transformRequest(pIn.url, pIn.body, pIn.accessToken,
                                       pIn.project, pIn.modelName,
                                       pIn.endpoint)]
  /\ UNCHANGED <<callVars, running, hist, inst, envVars, cIn, cOut, pIn>>

SpecRequest == InitRequest /\ [][ApplyTransformRequest]_vars

\* ------------------------------------------------- attempt's request body
Undefined == Val("undefined", "")

\* What the tool normaliser may hand back for a tools array: nothing, or
\* the tools in the vendor's function-calling shape.
normalizeToolsForGemini(tools) ==
  { Undefined, Val("object", "functionDeclarations") }

\* How init.body was passed: not at all, as JSON text, as text that is no
\* JSON, or as an object.
BodyKinds == {"absent", "string", "badstring", "object"}

AttemptInputs ==
  { [fn |-> "attemptFetch", bodyKind |-> k, body |-> b, url |-> u] :
      k \in {"string", "object"}, b \in Bodies, u \in Urls }
  \cup { [fn |-> "attemptFetch", bodyKind |-> k, body |-> <<>>, url |-> u] :
           k \in {"absent", "badstring"}, u \in Urls }

\* The caller's body object and the attempts made so far.
attemptState ==
  IF pOut.fn = "attemptFetch" THEN pOut
  ELSE [fn |-> "attemptFetch", callerBody |-> pIn.body, n |-> 0,
        sent |-> wrapRequestBody(<<>>, "", "")]

\* The body an attempt works on: parsed afresh from text, the caller's own
\* object when one was passed, the empty object otherwise.
attemptBody(kind, original, callerBody) ==
  CASE kind = "string" -> original
    [] kind = "object" -> callerBody
    [] OTHER -> <<>>

normalizable(body) ==
  "tools" \in DOMAIN body /\ body["tools"].t = "array"

InitAttempt ==
  /\ InitCalls
  /\ numEndpoints = 0
  /\ store = NoAuth
  /\ cIn = [kind |-> "none", status |-> 0]
  /\ cOut = "none"
  /\ pIn \in AttemptInputs
  /\ pOut = NoOutput

\* One attempt up to its fetch: the body is taken, its tools are replaced
\* by the normalised ones when there are any, and the envelope is built.
AttemptFetch ==
  /\ pIn.fn = "attemptFetch"
  /\ attemptState.n < EndpointCap
  /\ LET st == attemptState
         body == attemptBody(pIn.bodyKind, pIn.body, st.callerBody)
     IN
       \E normalizedTools \in
            IF normalizable(body) THEN normalizeToolsForGemini(body["tools"])
            ELSE { Undefined } :
         LET assigned == normalizable(body) /\ normalizedTools # Undefined
             body2 == IF assigned
                        THEN [body EXCEPT !["tools"] = normalizedTools]
                        ELSE body
         IN
           pOut' = [fn |-> "attemptFetch",
                    callerBody |-> IF pIn.bodyKind = "object" THEN body2
                                   ELSE st.callerBody,
                    n |-> st.n + 1,
                    sent |-> transformRequest(pIn.url, body2, "tok", "p1",
                                              "", endpointAt(st.n)).body]
  /\ UNCHANGED <<callVars, running, hist, inst, envVars, cIn, cOut, pIn>>

SpecAttempt == InitAttempt /\ [][AttemptFetch]_vars

\* -------------------------------------------------- response transformer
\* Bound on the lines of a response body.
MaxLines == 2

\* A line of body text.  data: the line starts with "data:".  form: what
\* follows is JSON text, text that is no JSON, the terminator token or
\* nothing.  JSON text is an object without a response field ("obj"), the
\* literal null, or either of them inside `wraps` {"response": ...}
\* envelopes; spaced: written with insignificant white space.
Line(data, form, wraps, base, spaced) ==
  [data |-> data, form |-> form, wraps |-> wraps, base |-> base,
   spaced |-> spaced]

\* JSON texts: {"a":1} compact and spaced, the same inside one and two
\* envelopes, the literal null, and {"response":null}.
JsonTexts ==
  { <<0, "obj", FALSE>>, <<0, "obj", TRUE>>, <<1, "obj", FALSE>>,
    <<2, "obj", FALSE>>, <<0, "null", FALSE>>, <<1, "null", FALSE>> }

JsonLines ==
  { Line(d, "json", j[1], j[2], j[3]) : d \in BOOLEAN, j \in JsonTexts }

Lines ==
  JsonLines
  \cup { Line(FALSE, f, 0, "obj", FALSE) : f \in {"garbage", "empty"} }
  \cup { Line(TRUE, f, 0, "obj", FALSE) : f \in {"garbage", "done", "empty"} }

BodyTexts == UNION { [1..n -> Lines] : n \in 0..MaxLines }

\* A JSON value: base inside wraps envelopes.
JsonValue(wraps, base) == [wraps |-> wraps, base |-> base]

\* JSON.parse of a whole body: it succeeds on one line of JSON text.
parses(text) ==
  Len(text) = 1 /\ ~text[1].data /\ text[1].form = "json"

JSONparse(text) == JsonValue(text[1].wraps, text[1].base)

\* JSON.stringify writes the value on one line without white space.
JSONstringify(v) == << Line(FALSE, "json", v.wraps, v.base, FALSE) >>

\* Reading a property of the literal null raises a TypeError.
propertyReadThrows(v) == v.wraps = 0 /\ v.base = "null"

\* The unwrap that strips every envelope at once.
unwrapMut(v) == JsonValue(0, v.base)

\* Lines 267-270, 312-314 and 403-406: parsed.response when it is defined.
unwrap(v) == IF v.wraps > 0 THEN JsonValue(v.wraps - 1, v.base) ELSE v

StatusTextOf(status) == IF status = 200 THEN "OK" ELSE "Not Found"

\* A Response: readable is FALSE when reading its body fails; bodyUsed is
\* TRUE once its body has been read.
Responses ==
  { [status |-> st, statusText |-> StatusTextOf(st), ctype |-> ct,
     body |-> b, readable |-> TRUE, bodyUsed |-> FALSE] :
      st \in {200, 404}, ct \in {"json", "sse", "other"}, b \in BodyTexts }
  \cup { [status |-> st, statusText |-> StatusTextOf(st), ctype |-> ct,
          body |-> <<>>, readable |-> FALSE, bodyUsed |-> FALSE] :
           st \in {200, 404}, ct \in {"json", "sse", "other"} }

\* new Response(text, {status, statusText, headers}) built from response.
newResponse(response, text) ==
  [response EXCEPT !.body = text, !.readable = TRUE, !.bodyUsed = FALSE]

\* The response after response.text() was called on it.
consumed(response) == [response EXCEPT !.bodyUsed = TRUE]

Returned(response) == [threw |-> FALSE, response |-> response]
Rejected(response) == [threw |-> TRUE, response |-> consumed(response)]

canRead(response) == response.readable /\ ~response.bodyUsed

\* Lines 219-250 and 363-391: the body is read outside any try.
errorBranch(response) ==
  IF canRead(response) THEN Returned(newResponse(response, response.body))
  ELSE Rejected(response)

transformResponse(response) ==
  IF ~ResponseOk(response.status) THEN errorBranch(response)
  ELSE IF response.ctype # "json" THEN Returned(response)
  ELSE IF /\ canRead(response)
          /\ parses(response.body)
          /\ ~propertyReadThrows(JSONparse(response.body))
    THEN Returned(newResponse(response,
                    JSONstringify(unwrap(JSONparse(response.body)))))
    ELSE Returned(consumed(response))

\* The rewrite that also unwraps lines without the data: prefix.
transformSseLineMut(line) ==
  IF line.form # "json" THEN line
  ELSE IF line.wraps > 0
    THEN Line(TRUE, "json", line.wraps - 1, line.base, FALSE)
    ELSE line

transformSseLine(line) ==
  IF ~line.data THEN line
  ELSE IF line.form # "json" THEN line
  ELSE IF line.wraps > 0
    THEN Line(TRUE, "json", line.wraps - 1, line.base, FALSE)
    ELSE line

transformStreamingPayload(payload) ==
  [i \in 1..Len(payload) |-> transformSseLine(payload[i])]

transformStreamingResponse(response) ==
  IF ~ResponseOk(response.status) THEN errorBranch(response)
  ELSE IF response.ctype # "sse"
    THEN IF ~canRead(response) THEN Rejected(response)
         ELSE IF /\ parses(response.body)
                 /\ ~propertyReadThrows(JSONparse(response.body))
           THEN Returned(newResponse(response,
                           JSONstringify(unwrap(JSONparse(response.body)))))
           ELSE Returned(newResponse(response, response.body))
  ELSE IF canRead(response)
    THEN Returned(newResponse(response,
                    transformStreamingPayload(response.body)))
    ELSE Returned(consumed(response))

isStreamingResponse(response) == response.ctype = "sse"

\* The body the reasoning-trace rewriter puts in place of a parsed one.
transformResponseThinking(v) == JsonValue(v.wraps, "thinking")

\* Line 149: the gate of the reasoning-trace hook.
hookOffered(response, include) ==
  ~isStreamingResponse(response) /\ include

\* What the hook makes of the transformed response r: a response with the
\* rewritten body when r can be cloned and read, parses and holds a trace,
\* and r itself otherwise.
hookResult(r, hasThinking) ==
  IF /\ canRead(r)
     /\ parses(r.body)
     /\ ~propertyReadThrows(JSONparse(r.body))
     /\ hasThinking
    THEN newResponse(r,
           JSONstringify(transformResponseThinking(JSONparse(r.body))))
    ELSE r

\* The hook building its response with a status of its own.
transformWithThinkingMut(response, include, hasThinking) ==
  LET res == IF isStreamingResponse(response)
               THEN transformStreamingResponse(response)
               ELSE transformResponse(response)
  IN
    IF res.threw \/ ~hookOffered(response, include) THEN res
    ELSE Returned([hookResult(res.response, hasThinking) EXCEPT
                     !.status = 200, !.statusText = "OK"])

\* Lines 135-171 of the interceptor: the transform chosen by content type,
\* then the reasoning-trace hook when its gate is open.
transformWithThinking(response, include, hasThinking) ==
  LET res == IF isStreamingResponse(response)
               THEN transformStreamingResponse(response)
               ELSE transformResponse(response)
  IN
    IF res.threw \/ ~hookOffered(response, include) THEN res
    ELSE Returned(hookResult(res.response, hasThinking))

ResponseInputs ==
  { [fn |-> f, response |-> r, include |-> FALSE, hasThinking |-> FALSE] :
      f \in {"transformResponse", "transformStreamingResponse"},
      r \in Responses }
  \cup { [fn |-> "interceptor", response |-> r, include |-> inc,
          hasThinking |-> th] :
           r \in Responses, inc \in BOOLEAN, th \in BOOLEAN }

InitResponse ==
  /\ InitCalls
  /\ numEndpoints = 0
  /\ store = NoAuth
  /\ cIn = [kind |-> "none", status |-> 0]
  /\ cOut = "none"
  /\ pIn \in ResponseInputs
  /\ pOut = NoOutput

applied(fn, response, include, hasThinking) ==
  CASE fn = "transformResponse" -> transformResponse(response)
    [] fn = "transformStreamingResponse" ->
         transformStreamingResponse(response)
    [] OTHER -> transformWithThinking(response, include, hasThinking)

\* The transform is applied to the vendor's response.
ApplyTransform ==
  /\ pIn.fn \in {"transformResponse", "transformStreamingResponse",
                 "interceptor"}
  /\ pOut = NoOutput
  /\ LET res == applied(pIn.fn, pIn.response, pIn.include, pIn.hasThinking)
     IN pOut' = [fn |-> pIn.fn, pass |-> 1, threw |-> res.threw,
                 response |-> res.response, first |-> res.response,
                 offered |-> /\ pIn.fn = "interceptor"
                             /\ ~res.threw
                             /\ hookOffered(pIn.response, pIn.include)]
  /\ UNCHANGED <<callVars, running, hist, inst, envVars, cIn, cOut, pIn>>

\* The same transform is applied to the response it returned.
ApplyAgain ==
  /\ pOut.fn \in {"transformResponse", "transformStreamingResponse",
                  "interceptor"}
  /\ pOut.pass = 1
  /\ ~pOut.threw
  /\ LET res == applied(pIn.fn, pOut.response, pIn.include, pIn.hasThinking)
     IN pOut' = [fn |-> pIn.fn, pass |-> 2, threw |-> res.threw,
                 response |-> res.response, first |-> pOut.response,
                 offered |-> /\ pIn.fn = "interceptor"
                             /\ ~res.threw
                             /\ hookOffered(pOut.response, pIn.include)]
  /\ UNCHANGED <<callVars, running, hist, inst, envVars, cIn, cOut, pIn>>

NextResponse == ApplyTransform \/ ApplyAgain

SpecResponse == InitResponse /\ [][NextResponse]_vars

\* ------------------------------------------------------ retry-after hint
\* Bound on the entries of error.details.
MaxDetails == 2

\* Decimal numbers are held in ten-thousandths: 2 is 20000, 5.123 is 51230.
UnitsPerOne == 10000

\* A header value or a retryDelay: absent (or empty), text that is no
\* number ("nan"), a value that is not a string, a string that does not
\* match <digits and dots>s ("nomatch"), or a number.
Num(kind, units) == [kind |-> kind, units |-> units]

HeaderValues ==
  { Num("absent", 0), Num("nan", 0), Num("num", 0), Num("num", 0 - 20000),
    Num("num", 20000), Num("num", 5), Num("num", 37000) }

DelayValues ==
  { Num("absent", 0), Num("notstring", 0), Num("nomatch", 0), Num("num", 0),
    Num("num", 51230), Num("num", 5) }

RetryInfoType == "type.googleapis.com/google.rpc.RetryInfo"

DetailEntries ==
  [type : {RetryInfoType, "type.googleapis.com/google.rpc.ErrorInfo"},
   retryDelay : DelayValues]

\* The parsed error body: none passed, without an error object, an error
\* without details, details that are no array, or an array of entries.
ErrorBodies ==
  { [shape |-> sh, details |-> <<>>] :
      sh \in {"undefined", "noerror", "nodetails", "notarray"} }
  \cup { [shape |-> "array", details |-> d] :
           d \in UNION { [1..n -> DetailEntries] : n \in 0..MaxDetails } }

\* No retry-after value (undefined); every value found is positive.
NoRetry == 0

\* Math.ceil(seconds * 1000)
ceilMs(units) == (units + 9) \div 10

\* parseInt(text, 10) of a decimal number: the digits before the point.
parseInt(units) ==
  IF units >= 0 THEN units \div UnitsPerOne
  ELSE 0 - ((0 - units) \div UnitsPerOne)

\* Array.prototype.find: the first entry of the RetryInfo type, as a
\* sequence of at most one entry.
RECURSIVE find(_)
find(details) ==
  IF details = <<>> THEN <<>>
  ELSE IF Head(details).type = RetryInfoType THEN << Head(details) >>
  ELSE find(Tail(details))

fromRetryAfter(h) ==
  IF h.kind = "num" /\ h.units > 0 THEN ceilMs(h.units) ELSE NoRetry

fromRetryAfterMs(h) ==
  IF h.kind = "num" /\ parseInt(h.units) > 0 THEN parseInt(h.units)
  ELSE NoRetry

fromErrorBody(errorBody) ==
  IF errorBody.shape # "array" \/ errorBody.details = <<>> THEN NoRetry
  ELSE LET retryInfo == find(errorBody.details) IN
    IF retryInfo = <<>> THEN NoRetry
    ELSE IF retryInfo[1].retryDelay.kind = "num"
            /\ retryInfo[1].retryDelay.units > 0
      THEN ceilMs(retryInfo[1].retryDelay.units)
      ELSE NoRetry

\* The hint taken from the error body ahead of the headers.
extractRetryAfterMsMut(retryAfter, retryAfterMs, errorBody) ==
  IF fromErrorBody(errorBody) # NoRetry THEN fromErrorBody(errorBody)
  ELSE IF fromRetryAfter(retryAfter) # NoRetry
    THEN fromRetryAfter(retryAfter)
  ELSE fromRetryAfterMs(retryAfterMs)

extractRetryAfterMs(retryAfter, retryAfterMs, errorBody) ==
  IF fromRetryAfter(retryAfter) # NoRetry THEN fromRetryAfter(retryAfter)
  ELSE IF fromRetryAfterMs(retryAfterMs) # NoRetry
    THEN fromRetryAfterMs(retryAfterMs)
  ELSE fromErrorBody(errorBody)

RetryInputs ==
  [fn : {"extractRetryAfterMs"}, retryAfter : HeaderValues,
   retryAfterMs : HeaderValues, errorBody : ErrorBodies]

InitRetry ==
  /\ InitCalls
  /\ numEndpoints = 0
  /\ store = NoAuth
  /\ cIn = [kind |-> "none", status |-> 0]
  /\ cOut = "none"
  /\ pIn \in RetryInputs
  /\ pOut = NoOutput

\* extractRetryAfterMs is applied to the headers and the error body drawn.
ApplyExtractRetryAfterMs ==
  /\ pIn.fn = "extractRetryAfterMs"
  /\ pOut = NoOutput
  /\ pOut' = [fn |-> "extractRetryAfterMs",
              ms |-> extractRetryAfterMs(pIn.retryAfter, pIn.retryAfterMs,
                                         pIn.errorBody)]
  /\ UNCHANGED <<callVars, running, hist, inst, envVars, cIn, cOut, pIn>>

SpecRetry == InitRetry /\ [][ApplyExtractRetryAfterMs]_vars

\* ------------------------------------------------------- error responses
NoDetails == [shape |-> "nodetails", details |-> <<>>]

\* The value of an `error` field: absent, a string, or an object with
\* message, type, code and details.
ErrField(kind, message, type, code, details) ==
  [kind |-> kind, message |-> message, type |-> type, code |-> code,
   details |-> details]

NoErrField == ErrField("absent", Undefined, Undefined, Undefined, NoDetails)

\* The text of an error body: text that is no JSON ("boom"), the empty
\* text, the literal null, or a JSON object with an error field and
\* top-level message, type and code.
ErrText(form, error, message, type, code) ==
  [form |-> form, error |-> error, message |-> message, type |-> type,
   code |-> code]

PlainTexts ==
  { ErrText(f, NoErrField, Undefined, Undefined, Undefined) :
      f \in {"garbage", "empty", "null"} }

Messages == { Undefined, Val("string", "bad"), Val("number", "7") }
Types == { Undefined, Val("string", "T") }
Codes == { Undefined, Val("number", "400") }

\* Error bodies that differ in the fields parseErrorBody reads.
FieldTexts ==
  { ErrText("object", e, m, t, c) :
      e \in { NoErrField,
              ErrField("string", Undefined, Undefined, Undefined, NoDetails) }
            \cup { ErrField("object", em, et, ec, NoDetails) :
                     em \in Messages, et \in Types, ec \in Codes },
      m \in Messages, t \in Types, c \in Codes }

\* Error bodies that differ in what extractRetryAfterMs reads.
DetailTexts ==
  { ErrText("object",
            ErrField("object", Val("string", "bad"), Undefined, Undefined, d),
            Undefined, Undefined, Undefined) :
      d \in { b \in ErrorBodies : b.shape \in {"nodetails", "notarray", "array"} } }

\* The text as the caller reads it.
rawText(text) ==
  CASE text.form = "garbage" -> "boom"
    [] text.form = "empty" -> ""
    [] text.form = "null" -> "null"
    [] OTHER -> "{...}"

\* String(value)
String(value) == value.v

NoError == [defined |-> FALSE, message |-> "", type |-> "", code |-> Undefined]

AntigravityError(message, type, code) ==
  [defined |-> TRUE, message |-> message, type |-> type, code |-> code]

\* Text that is no JSON, and the literal null whose property read throws,
\* take the catch; an object without an error object and without a string
\* message yields undefined.
parseErrorBody(text) ==
  IF text.form # "object"
    THEN AntigravityError(IF rawText(text) # "" THEN rawText(text)
                          ELSE "Unknown error", "", Undefined)
  ELSE IF text.error.kind = "object"
    THEN AntigravityError(
           IF text.error.message # Undefined THEN String(text.error.message)
           ELSE "Unknown error",
           IF text.error.type # Undefined THEN String(text.error.type) ELSE "",
           text.error.code)
  ELSE IF text.message.t = "string"
    THEN AntigravityError(text.message.v,
           IF text.type # Undefined THEN String(text.type) ELSE "",
           text.code)
  ELSE NoError

\* JSON.parse(text), or { error: { message: text } } when that throws, as
\* extractRetryAfterMs sees it.
errorBodyOf(text) ==
  CASE text.form \in {"garbage", "empty"} -> NoDetails
    [] text.form = "null" -> [shape |-> "undefined", details |-> <<>>]
    [] text.error.kind = "absent" -> [shape |-> "noerror", details |-> <<>>]
    [] text.error.kind = "string" -> NoDetails
    [] OTHER -> text.error.details

\* A header holding the number n.
numberHeader(n) == Num("num", n * UnitsPerOne)

\* Only the Retry-After header written when a hint was found.
retryHeadersMut(retryMs, retryAfter, retryAfterMs) ==
  IF retryMs # NoRetry
    THEN [retryAfter |-> numberHeader((retryMs + 999) \div 1000),
          retryAfterMs |-> retryAfterMs]
    ELSE [retryAfter |-> retryAfter, retryAfterMs |-> retryAfterMs]

\* Lines 233-236 and 376-379: both headers are set when a hint was found.
retryHeaders(retryMs, retryAfter, retryAfterMs) ==
  IF retryMs # NoRetry
    THEN [retryAfter |-> numberHeader((retryMs + 999) \div 1000),
          retryAfterMs |-> numberHeader(retryMs)]
    ELSE [retryAfter |-> retryAfter, retryAfterMs |-> retryAfterMs]

\* The error branch of transformResponse (streaming FALSE) and of
\* transformStreamingResponse (streaming TRUE) on a body that was read.
errorResponse(streaming, status, retryAfter, retryAfterMs, text) ==
  LET error == parseErrorBody(text)
      fromError == extractRetryAfterMs(retryAfter, retryAfterMs,
                     IF error.defined THEN NoDetails
                     ELSE [shape |-> "undefined", details |-> <<>>])
      fromBody == extractRetryAfterMs(retryAfter, retryAfterMs,
                                      errorBodyOf(text))
      retryMs == IF streaming THEN fromBody
                 ELSE IF fromBody # NoRetry THEN fromBody ELSE fromError
  IN
    [status |-> status, statusText |-> StatusTextOf(status), body |-> text,
     headers |-> retryHeaders(retryMs, retryAfter, retryAfterMs),
     retryAfterMs |-> retryMs, error |-> error]

ErrorInputs ==
  { [fn |-> "parseErrorBody", streaming |-> FALSE, status |-> 404,
     retryAfter |-> Num("absent", 0), retryAfterMs |-> Num("absent", 0),
     text |-> t] : t \in PlainTexts \cup FieldTexts }
  \cup { [fn |-> "errorResponse", streaming |-> st, status |-> s,
          retryAfter |-> ra, retryAfterMs |-> rm, text |-> t] :
           st \in BOOLEAN, s \in {404, 429}, ra \in HeaderValues,
           rm \in HeaderValues, t \in PlainTexts \cup DetailTexts }

InitError ==
  /\ InitCalls
  /\ numEndpoints = 0
  /\ store = NoAuth
  /\ cIn = [kind |-> "none", status |-> 0]
  /\ cOut = "none"
  /\ pIn \in ErrorInputs
  /\ pOut = NoOutput

\* parseErrorBody is applied to the text drawn.
ApplyParseErrorBody ==
  /\ pIn.fn = "parseErrorBody"
  /\ pOut = NoOutput
  /\ pOut' = [fn |-> "parseErrorBody", error |-> parseErrorBody(pIn.text)]
  /\ UNCHANGED <<callVars, running, hist, inst, envVars, cIn, cOut, pIn>>

\* The error response drawn is translated.
ApplyErrorResponse ==
  /\ pIn.fn = "errorResponse"
  /\ pOut = NoOutput
  /\ pOut' = [fn |-> "errorResponse",
              out |-> errorResponse(pIn.streaming, pIn.status, pIn.retryAfter,
                                    pIn.retryAfterMs, pIn.text)]
  /\ UNCHANGED <<callVars, running, hist, inst, envVars, cIn, cOut, pIn>>

NextError == ApplyParseErrorBody \/ ApplyErrorResponse

SpecError == InitError /\ [][NextError]_vars

\* --------------------------------------------------------- usage headers
\* The usage field filled from each of the four headers.
UsageField ==
  [h \in {"x-antigravity-cached-content-token-count",
          "x-antigravity-total-token-count",
          "x-antigravity-prompt-token-count",
          "x-antigravity-candidates-token-count"} |->
     CASE h = "x-antigravity-cached-content-token-count" ->
            "cachedContentTokenCount"
       [] h = "x-antigravity-total-token-count" -> "totalTokenCount"
       [] h = "x-antigravity-prompt-token-count" -> "promptTokenCount"
       [] OTHER -> "candidatesTokenCount"]

UsageHeaders == DOMAIN UsageField

NoUsage == [defined |-> FALSE, usage |-> <<>>]

\* The extraction keeping a field for a header that is no number.
extractUsageFromHeadersMut(headers) ==
  LET present == { h \in UsageHeaders : headers[h].kind # "absent" }
      fields == { UsageField[h] : h \in present }
      headerOf(f) == CHOOSE h \in UsageHeaders : UsageField[h] = f
  IN
    IF present = {} \/ fields = {} THEN NoUsage
    ELSE [defined |-> TRUE,
          usage |-> [f \in fields |->
                       IF headers[headerOf(f)].kind = "num"
                         THEN parseInt(headers[headerOf(f)].units) ELSE 0]]

extractUsageFromHeaders(headers) ==
  LET present == { h \in UsageHeaders : headers[h].kind # "absent" }
      numeric == { h \in present : headers[h].kind = "num" }
      fields == { UsageField[h] : h \in numeric }
      headerOf(f) == CHOOSE h \in UsageHeaders : UsageField[h] = f
  IN
    IF present = {} \/ fields = {} THEN NoUsage
    ELSE [defined |-> TRUE,
          usage |-> [f \in fields |-> parseInt(headers[headerOf(f)].units)]]

UsageInputs ==
  { [fn |-> "extractUsageFromHeaders", headers |-> hs] :
      hs \in [UsageHeaders -> HeaderValues] }

InitUsage ==
  /\ InitCalls
  /\ numEndpoints = 0
  /\ store = NoAuth
  /\ cIn = [kind |-> "none", status |-> 0]
  /\ cOut = "none"
  /\ pIn \in UsageInputs
  /\ pOut = NoOutput

\* extractUsageFromHeaders is applied to the headers drawn.
ApplyExtractUsage ==
  /\ pIn.fn = "extractUsageFromHeaders"
  /\ pOut = NoOutput
  /\ pOut' = [fn |-> "extractUsageFromHeaders",
              out |-> extractUsageFromHeaders(pIn.headers)]
  /\ UNCHANGED <<callVars, running, hist, inst, envVars, cIn, cOut, pIn>>

SpecUsage == InitUsage /\ [][ApplyExtractUsage]_vars

\* ================================================================ claims
\* The classification the specification gives: an attempt is retryable when
\* fetch gave no response, or gave one with status 0, 429 or 5xx.
Settled(a) == a.out.kind # "pending"
RetryableOutcome(o) ==
  \/ o.kind \in {"neterr", "abort"}
  \/ o.kind = "response" /\ (o.status \in {0, 429} \/ o.status \in 500..599)
TerminalOutcome(o) == o.kind = "response" /\ ~RetryableOutcome(o)

C3_AttemptCap ==
  \A c \in Calls :
    /\ Len(attempts[c]) <= IF numEndpoints < 3 THEN numEndpoints ELSE 3
    /\ \A j, k \in 1..Len(attempts[c]) :
         j # k => attempts[c][j].endpoint # attempts[c][k].endpoint

\* C3 witness: a list of four endpoints, three attempts made, all failed.
C3_Witness ==
  \E c \in Calls :
    /\ numEndpoints = 4
    /\ Len(attempts[c]) = 3
    /\ pc[c] = "returned"
    /\ result[c].synthesized

C5_AuthMissingFailsFast ==
  \A c \in Calls :
    (/\ pc[c] \notin {"idle", "getAuth"}
     /\ (auth[c].access = 0 \/ auth[c].refresh = <<>>)) =>
      /\ pc[c] = "thrown"
      /\ result[c] = thrown("AuthMissing")
      /\ refreshCalls[c] = 0
      /\ lookupCalls[c] = 0
      /\ attempts[c] = <<>>
      /\ <<cachedTokens, cachedProjectId>> = startSnap[c]

\* C5 witness: a call on an instance that already holds a token state and a
\* project id found the credentials gone.
C5_Witness ==
  \E c \in Calls :
    /\ pc[c] = "thrown"
    /\ result[c] = thrown("AuthMissing")
    /\ cachedTokens # <<>>
    /\ cachedProjectId = "p1"

\* C6: a call invokes the refresh routine at most once and only while the
\* cached token is expired; when the refresh fails the call raises
\* RefreshFailure without retrying, and issues no lookup and no request.
C6_RefreshOnce ==
  \A c \in Calls :
    /\ refreshCalls[c] <= 1
    /\ pc[c] = "refresh" =>
         /\ refreshCalls[c] = 1
         /\ isTokenExpired(cachedTokens[1], now)
    /\ refreshFailed[c] =>
         /\ pc[c] = "thrown"
         /\ result[c] = thrown("RefreshFailure")
         /\ refreshCalls[c] = 1
         /\ lookupCalls[c] = 0
         /\ attempts[c] = <<>>

\* C6 witness: a refresh was rejected and the call has thrown.
C6_Witness ==
  \E c \in Calls :
    /\ refreshFailed[c]
    /\ pc[c] = "thrown"
    /\ refreshCalls[c] = 1

C8_ProjectInvalidatedOnRefresh ==
  cachedProjectId \notin {NULL, ""} => projectEpoch = issued

\* C9: with no refresh in between, the project-context lookup is invoked at
\* most once over any sequence of calls, whatever id it returned.
C9_LookupOnce == lookupsSinceRefresh <= 1

\* C10: no vendor request follows an attempt that the caller's signal
\* aborted.
C10_NoAttemptAfterCancel ==
  \A c \in Calls :
    \A k \in 1..Len(attempts[c]) :
      attempts[c][k].out.kind = "abort" => k = Len(attempts[c])

\* C16: the model placed in the envelope is the modelName argument when
\* given, else the body's model field, else the model segment of the URL,
\* else the fixed fallback model, for every combination of the sources.
C16_ModelPrecedence ==
  pOut.fn = "transformRequest" =>
    LET b == pIn.body
        fromBody == "model" \in DOMAIN b /\ b["model"].t = "string"
                    /\ b["model"].v \notin {"", " "}
        m == pOut.out.body.model
    IN
      /\ pIn.modelName # "" => m = pIn.modelName
      /\ (pIn.modelName = "" /\ fromBody) => m = "mB"
      /\ (pIn.modelName = "" /\ ~fromBody /\ pIn.url.pattern) =>
           m = pIn.url.model
      /\ (pIn.modelName = "" /\ ~fromBody /\ ~pIn.url.pattern) =>
           m = "gemini-3-pro-preview"

\* C16 witnesses: the four sources given with conflicting values, and the
\* body winning over the URL when no argument is given.
C16_Witness ==
  /\ pOut.fn = "transformRequest"
  /\ "model" \in DOMAIN pIn.body
  /\ pIn.body["model"] = Val("string", "mB")
  /\ pIn.url.model = "mU"
  /\ \/ pIn.modelName = "mA" /\ pOut.out.body.model = "mA"
     \/ pIn.modelName = "" /\ pOut.out.body.model = "mB"

\* C17: wrapRequestBody yields {project, model, request} whose request is
\* the original body without its model key, every other key and value kept.
C17_WrapRoundTrip ==
  pOut.fn = "transformRequest" =>
    LET w == pOut.out.body IN
      /\ DOMAIN w = {"project", "model", "request"}
      /\ w.project = pIn.project
      /\ DOMAIN w.request = DOMAIN pIn.body \ {"model"}
      /\ \A k \in DOMAIN pIn.body :
           k # "model" => w.request[k] = pIn.body[k]

\* C17 witness: a body with a model, a tools array and a stream flag.
C17_Witness ==
  /\ pOut.fn = "transformRequest"
  /\ DOMAIN pIn.body = {"model", "stream", "tools", "messages"}
  /\ DOMAIN pOut.out.body.request = {"stream", "tools", "messages"}

\* C18: streaming is true iff the URL's action is the streaming action or
\* body.stream is exactly true; the streaming action name, the ?alt=sse
\* suffix and the Accept: text/event-stream header are there iff it is.
C18_StreamingConsistent ==
  pOut.fn = "transformRequest" =>
    LET o == pOut.out
        wanted == \/ pIn.url.pattern /\ pIn.url.action = "streamGenerateContent"
                  \/ "stream" \in DOMAIN pIn.body
                     /\ pIn.body["stream"].t = "boolean"
                     /\ pIn.body["stream"].v = "true"
    IN
      /\ o.streaming <=> wanted
      /\ o.url.action = "streamGenerateContent" <=> o.streaming
      /\ o.url.action \in {"streamGenerateContent", "generateContent"}
      /\ o.url.query = "?alt=sse" <=> o.streaming
      /\ o.url.query \in {"?alt=sse", ""}
      /\ "Accept" \in DOMAIN o.headers <=> o.streaming
      /\ o.streaming => o.headers["Accept"] = "text/event-stream"

\* C18 witnesses: streaming asked for by the body alone on a URL naming the
\* plain action, and the string "true" not counting.
C18_Witness ==
  /\ pOut.fn = "transformRequest"
  /\ pIn.url.action = "generateContent"
  /\ "stream" \in DOMAIN pIn.body
  /\ \/ pIn.body["stream"] = Val("boolean", "true") /\ pOut.out.streaming
     \/ pIn.body["stream"] = Val("string", "true") /\ ~pOut.out.streaming

\* C13: no attempt changes the caller's request body: after any number of
\* attempts, for every body and every way of passing it, the caller's body
\* equals what it was before the call.
C13_CallerBodyUntouched ==
  pOut.fn = "attemptFetch" => pOut.callerBody = pIn.body

\* C11: the interceptor's transform of a vendor response never raises,
\* whatever the status, the content type and the body, readable or not: a
\* call raises only for absent credentials or a failed refresh.
C11_TransformNeverRaises ==
  pOut.fn = "interceptor" => ~pOut.threw

\* The transform stage that handles the response as one JSON text, or as
\* server-sent events.
handledAsJson(fn, r) ==
  \/ fn \in {"transformResponse", "interceptor"} /\ r.ctype = "json"
  \/ fn = "transformStreamingResponse" /\ r.ctype # "sse"

handledAsSse(fn, r) ==
  fn \in {"transformStreamingResponse", "interceptor"} /\ r.ctype = "sse"

\* C12: when a transform stage cannot parse the body of a successful
\* response, the response returned delivers the original body bytes,
\* readable and not consumed, with the original status and headers.
C12_ParseFailureKeepsBody ==
  LET r == pIn.response IN
    ( /\ pOut.fn \in {"transformResponse", "transformStreamingResponse",
                      "interceptor"}
      /\ pOut.pass = 1
      /\ ResponseOk(r.status)
      /\ r.readable
      /\ \/ handledAsJson(pIn.fn, r) /\ ~parses(r.body)
         \/ /\ handledAsSse(pIn.fn, r)
            /\ \E i \in 1..Len(r.body) : r.body[i].data
            /\ \A i \in 1..Len(r.body) :
                 r.body[i].data => r.body[i].form = "garbage" )
    => /\ ~pOut.threw
       /\ pOut.response.status = r.status
       /\ pOut.response.statusText = r.statusText
       /\ pOut.response.ctype = r.ctype
       /\ pOut.response.body = r.body
       /\ pOut.response.readable
       /\ ~pOut.response.bodyUsed

C20_RetryAfterPriority ==
  pOut.fn = "extractRetryAfterMs" =>
    LET ra == pIn.retryAfter
        rm == pIn.retryAfterMs
        d == pIn.errorBody.details
        hasA == ra.kind = "num" /\ ra.units >= 1
        hasM == rm.kind = "num" /\ rm.units >= 10000
        isInfo(i) == d[i].type = "type.googleapis.com/google.rpc.RetryInfo"
        infoAt(i) == isInfo(i) /\ \A j \in 1..(i - 1) : ~isInfo(j)
        hasD(i) == /\ infoAt(i)
                   /\ d[i].retryDelay.kind = "num"
                   /\ d[i].retryDelay.units >= 1
        embedded(u) == \E i \in 1..Len(d) : hasD(i) /\ d[i].retryDelay.units = u
    IN
      /\ hasA => pOut.ms * 10 >= ra.units /\ (pOut.ms - 1) * 10 < ra.units
      /\ (~hasA /\ hasM) =>
           pOut.ms * 10000 <= rm.units /\ (pOut.ms + 1) * 10000 > rm.units
      /\ \A i \in 1..Len(d) :
           (~hasA /\ ~hasM /\ hasD(i)) =>
             /\ pOut.ms * 10 >= d[i].retryDelay.units
             /\ (pOut.ms - 1) * 10 < d[i].retryDelay.units
      /\ (~hasA /\ ~hasM /\ ~(\E i \in 1..Len(d) : hasD(i))) => pOut.ms = 0
      /\ (ra = Num("num", 20000) /\ embedded(51230)) => pOut.ms = 2000
      /\ (~hasA /\ ~hasM /\ embedded(51230)) => pOut.ms = 5123

\* C20 witnesses: the two examples of the claim, and a retry-after-ms
\* header winning over an embedded delay.
C20_Witness ==
  /\ pOut.fn = "extractRetryAfterMs"
  /\ pIn.errorBody.shape = "array"
  /\ Len(pIn.errorBody.details) = 2
  /\ pIn.errorBody.details[2] =
       [type |-> RetryInfoType, retryDelay |-> Num("num", 51230)]
  /\ pIn.errorBody.details[1].type # RetryInfoType
  /\ \/ pIn.retryAfter = Num("num", 20000) /\ pOut.ms = 2000
     \/ /\ pIn.retryAfter.kind = "absent"
        /\ pIn.retryAfterMs.kind = "absent"
        /\ pOut.ms = 5123
     \/ /\ pIn.retryAfter.kind = "nan"
        /\ pIn.retryAfterMs = Num("num", 37000)
        /\ pOut.ms = 3

\* C14: within one call the stages run one after another: no request is
\* issued before token validation and project resolution are over, the
\* project lookup starts only after the refresh is over, and at most one
\* request of the call is in flight at any time, the one last issued.
C14_OneStageAtATime ==
  \A c \in Calls :
    LET pend == { i \in 1..Len(attempts[c]) :
                    attempts[c][i].out.kind = "pending" }
    IN
      /\ pc[c] \in {"idle", "getAuth", "seed", "checkExpiry", "refresh",
                    "set", "project", "lookup", "loopInit"}
           => attempts[c] = <<>>
      /\ pc[c] \in {"getAuth", "seed", "checkExpiry", "refresh", "set"}
           => lookupCalls[c] = 0
      /\ Cardinality(pend) <= 1
      /\ pend # {} => pend = {Len(attempts[c])}
      /\ pend # {} <=> pc[c] = "fetch"

\* C14 witness: a call that refreshed and looked the project up has its
\* second request in flight, the first one settled.
C14_Witness ==
  \E c \in Calls :
    /\ pc[c] = "fetch"
    /\ refreshCalls[c] = 1
    /\ lookupCalls[c] = 1
    /\ Len(attempts[c]) = 2
    /\ attempts[c][1].out.kind # "pending"
    /\ attempts[c][2].out.kind = "pending"

\* C15: calls on one instance are not synchronised: two interleaved calls
\* that both find the token expired each invoke the refresh routine, while
\* no call invokes it more than once.
C15_OneRefreshPerCall ==
  \A c \in Calls :
    /\ refreshCalls[c] <= 1
    /\ pc[c] \in {"refresh", "set"} => refreshCalls[c] = 1
    /\ pc[c] \in {"idle", "getAuth", "seed", "checkExpiry"}
         => refreshCalls[c] = 0

\* C15 witness: both calls are inside the refresh routine at once, for the
\* one expiry of the stored token.
C15_Witness ==
  /\ pc[1] = "refresh"
  /\ pc[2] = "refresh"
  /\ refreshCalls[1] = 1
  /\ refreshCalls[2] = 1
  /\ issued = 0

\* C21: the translation of an error response, in the streaming branch or
\* not, keeps status, statusText and body text; when a retry-after value
\* was found it carries a Retry-After header with that value in seconds
\* (rounded up) and a retry-after-ms header with that value; when none was
\* found the two headers are as the vendor sent them.
C21_ErrorTranslation ==
  pOut.fn = "errorResponse" =>
    LET o == pOut.out
        found == extractRetryAfterMs(pIn.retryAfter, pIn.retryAfterMs,
                                     errorBodyOf(pIn.text))
    IN
      /\ o.status = pIn.status
      /\ o.statusText = StatusTextOf(pIn.status)
      /\ o.body = pIn.text
      /\ o.retryAfterMs = found
      /\ found > 0 =>
           /\ o.headers.retryAfterMs.kind = "num"
           /\ o.headers.retryAfterMs.units = found * 10000
           /\ o.headers.retryAfter.kind = "num"
           /\ o.headers.retryAfter.units % 10000 = 0
           /\ (o.headers.retryAfter.units \div 10000) * 1000 >= found
           /\ (o.headers.retryAfter.units \div 10000 - 1) * 1000 < found
      /\ found = 0 =>
           /\ o.headers.retryAfter = pIn.retryAfter
           /\ o.headers.retryAfterMs = pIn.retryAfterMs

\* C21 witnesses: a hint of 5123 ms embedded in the body of a response
\* without retry headers gives Retry-After 6 and retry-after-ms 5123 in
\* both branches; a response without a hint gets no header.
C21_Witness ==
  /\ pOut.fn = "errorResponse"
  /\ pIn.retryAfter.kind = "absent"
  /\ pIn.retryAfterMs.kind = "absent"
  /\ \/ /\ pOut.out.retryAfterMs = 5123
        /\ pOut.out.headers.retryAfter = Num("num", 60000)
        /\ pOut.out.headers.retryAfterMs = Num("num", 51230000)
        /\ pIn.streaming
     \/ /\ pOut.out.retryAfterMs = 0
        /\ pOut.out.headers.retryAfter.kind = "absent"
        /\ pIn.text.form = "garbage"
        /\ ~pIn.streaming

\* C22: error-body parsing yields a normalised error for every text: from
\* the nested error object when there is one, else from the top-level
\* message, type and code, else with the raw text as message; "boom" gives
\* {message: "boom"}.
C22_ParsedErrorNormalised ==
  pOut.fn = "parseErrorBody" =>
    LET t == pIn.text
        e == pOut.error
        nested == t.form = "object" /\ t.error.kind = "object"
        top == t.form = "object" /\ ~nested /\ t.message.t = "string"
    IN
      /\ e.defined
      /\ (nested /\ t.error.message.t = "string") =>
           e.message = t.error.message.v /\ e.code = t.error.code
      /\ top => e.message = t.message.v /\ e.code = t.code
      /\ (~nested /\ ~top /\ t.form # "empty") => e.message = rawText(t)
      /\ t.form = "garbage" => e = AntigravityError("boom", "", Undefined)

\* C23: SSE rewriting keeps the number and the order of the lines: a line
\* without the data: prefix, a data line holding the terminator token,
\* text that does not parse or JSON without a top-level response field is
\* returned as it was, and a data line whose JSON has a top-level response
\* field becomes "data: " followed by the serialised inner value.
C23_SseRewrite ==
  ( /\ pOut.fn \in {"transformStreamingResponse", "interceptor"}
    /\ pOut.pass = 1
    /\ pIn.response.ctype = "sse"
    /\ ResponseOk(pIn.response.status)
    /\ pIn.response.readable )
  => LET payload == pIn.response.body
         rewritten == pOut.response.body
     IN
       /\ ~pOut.threw
       /\ Len(rewritten) = Len(payload)
       /\ \A i \in 1..Len(payload) :
            IF /\ payload[i].data
               /\ payload[i].form = "json"
               /\ payload[i].wraps >= 1
              THEN /\ rewritten[i].data
                   /\ rewritten[i].form = "json"
                   /\ rewritten[i].wraps = payload[i].wraps - 1
                   /\ rewritten[i].base = payload[i].base
                   /\ ~rewritten[i].spaced
              ELSE rewritten[i] = payload[i]

\* C23 witnesses: of an enveloped line without the prefix followed by an
\* enveloped data line only the second changes; a terminator line after a
\* data line that does not parse leaves the payload as it was.
C23_Witness ==
  /\ pOut.fn = "transformStreamingResponse"
  /\ pOut.pass = 1
  /\ pIn.response.ctype = "sse"
  /\ ResponseOk(pIn.response.status)
  /\ Len(pIn.response.body) = 2
  /\ \/ /\ pIn.response.body[1] = Line(FALSE, "json", 1, "obj", FALSE)
        /\ pIn.response.body[2] = Line(TRUE, "json", 1, "obj", FALSE)
        /\ pOut.response.body[1] = pIn.response.body[1]
        /\ pOut.response.body[2] = Line(TRUE, "json", 0, "obj", FALSE)
     \/ /\ pIn.response.body[1].form = "garbage"
        /\ pIn.response.body[1].data
        /\ pIn.response.body[2].form = "done"
        /\ pOut.response.body = pIn.response.body

\* C24: for every subset of the four usage headers, the extraction yields
\* undefined when no header is present or none of the present ones is a
\* number, and otherwise an object with exactly the fields whose header is
\* present and a number, each holding the header's integer value.
C24_UsageFromHeaders ==
  pOut.fn = "extractUsageFromHeaders" =>
    LET hs == pIn.headers
        num(h) == hs[h].kind = "num"
        o == pOut.out
    IN
      /\ o.defined <=> \E h \in DOMAIN hs : num(h)
      /\ o.defined =>
           /\ \A h \in DOMAIN hs : num(h) <=> UsageField[h] \in DOMAIN o.usage
           /\ Cardinality(DOMAIN o.usage)
                = Cardinality({ h \in DOMAIN hs : num(h) })
           /\ \A h \in DOMAIN hs :
                (num(h) /\ hs[h].units >= 0) =>
                  /\ o.usage[UsageField[h]] * 10000 <= hs[h].units
                  /\ (o.usage[UsageField[h]] + 1) * 10000 > hs[h].units

\* C24 witnesses: two headers are numbers, one is no number and one is
\* absent, giving exactly two fields; headers that are present but no
\* numbers give undefined.
C24_Witness ==
  /\ pOut.fn = "extractUsageFromHeaders"
  /\ pIn.headers["x-antigravity-total-token-count"].kind = "nan"
  /\ pIn.headers["x-antigravity-cached-content-token-count"].kind = "absent"
  /\ \/ /\ pIn.headers["x-antigravity-prompt-token-count"] = Num("num", 20000)
        /\ pIn.headers["x-antigravity-candidates-token-count"] = Num("num", 0)
        /\ pOut.out.defined
        /\ DOMAIN pOut.out.usage = {"promptTokenCount", "candidatesTokenCount"}
        /\ pOut.out.usage["promptTokenCount"] = 2
     \/ /\ pIn.headers["x-antigravity-prompt-token-count"].kind = "nan"
        /\ pIn.headers["x-antigravity-candidates-token-count"].kind = "absent"
        /\ ~pOut.out.defined

\* C25: every attempt of a call carries the project id embedded in the
\* stored refresh credential when that is not empty, and otherwise the id
\* the project-context lookup gave; all attempts of a call carry the same.
C25_ProjectIdOfAttempts ==
  \A c \in Calls :
    LET credential == auth[c].refresh
        embedded == IF Len(credential) >= 2 THEN credential[2] ELSE ""
    IN
      \A k \in 1..Len(attempts[c]) :
        /\ embedded # "" => attempts[c][k].project = embedded
        /\ embedded = "" =>
             /\ attempts[c][k].project = cachedProjectId
             /\ cachedProjectId \in LookupResults
        /\ attempts[c][k].project = attempts[c][1].project

\* C25 witnesses: a second attempt of a call whose credential embeds an id
\* while the lookup gave another one, and of a call whose credential embeds
\* none.
C25_Witness ==
  \E c \in Calls :
    /\ Len(attempts[c]) >= 2
    /\ cachedProjectId = "p1"
    /\ \/ /\ Len(auth[c].refresh) >= 2
          /\ auth[c].refresh[2] = "pE"
          /\ attempts[c][2].project = "pE"
       \/ /\ Len(auth[c].refresh) >= 2
          /\ auth[c].refresh[2] = ""
          /\ attempts[c][2].project = "p1"

\* C26: the refresh value written to the store by a successful refresh
\* decodes to the newly issued refresh token together with the projectId
\* and the managedProjectId the credential carried before the refresh.
C26_ProjectFieldsCarried ==
  \A c \in Calls :
    stored[c] # NoAuth =>
      LET before == parseStoredToken(auth[c].refresh)
          after == parseStoredToken(stored[c].refresh)
      IN
        /\ after.refreshToken = ownToken[c]
        /\ after.refreshToken # before.refreshToken
        /\ after.projectId = before.projectId
        /\ after.managedProjectId = before.managedProjectId
        /\ stored[c].access = ownToken[c]

\* C26 witnesses: a credential with both project fields, and one with a
\* managed project id only, were rewritten by a refresh.
C26_Witness ==
  \E c \in Calls :
    /\ stored[c] # NoAuth
    /\ store = stored[c]
    /\ \/ auth[c].refresh = <<1, "pE", "mE">> /\ store.refresh[3] = "mE"
       \/ auth[c].refresh = <<1, "", "mE">> /\ store.refresh[3] = "mE"

\* C27: the transformed result of a call is offered to the reasoning-trace
\* hook exactly when the per-model predicate holds for the call's model
\* name, for streaming and non-streaming results alike.
C27_HookGatedByModel ==
  (pOut.fn = "interceptor" /\ pOut.pass = 1 /\ ~pOut.threw)
    => (pOut.offered <=> pIn.include)

\* C28: when the hook is applied and the transformed response does not
\* parse or holds no reasoning trace, the call returns the transformed
\* response as it is; when the hook replaces the body, the response
\* returned keeps the transformed response's status, statusText and
\* headers.
C28_HookFallback ==
  (pOut.fn = "interceptor" /\ pOut.pass = 1 /\ pOut.offered) =>
    LET transformed == transformResponse(pIn.response).response
        replaces == /\ ~transformed.bodyUsed
                    /\ parses(transformed.body)
                    /\ transformed.body[1].wraps > 0
                         \/ transformed.body[1].base # "null"
                    /\ pIn.hasThinking
    IN
      /\ ~replaces => pOut.response = transformed
      /\ replaces =>
           /\ pOut.response.status = transformed.status
           /\ pOut.response.statusText = transformed.statusText
           /\ pOut.response.ctype = transformed.ctype
           /\ pOut.response.body[1].base = "thinking"
           /\ ~pOut.response.bodyUsed

\* C28 witnesses: the hook replaced the body of a 404 result; the hook
\* found text that does not parse and the transformed response is
\* returned; the hook found no trace.
C28_Witness ==
  /\ pOut.fn = "interceptor"
  /\ pOut.pass = 1
  /\ pOut.offered
  /\ \/ /\ pIn.response.status = 404
        /\ pIn.hasThinking
        /\ pOut.response.status = 404
        /\ Len(pOut.response.body) = 1
        /\ pOut.response.body[1].base = "thinking"
     \/ /\ pIn.hasThinking
        /\ pIn.response.ctype = "other"
        /\ Len(pIn.response.body) = 1
        /\ pIn.response.body[1].form = "garbage"
        /\ pOut.response = pIn.response
     \/ /\ ~pIn.hasThinking
        /\ parses(pIn.response.body)
        /\ pIn.response.body[1].wraps = 1
        /\ pOut.response.body[1].wraps = 0
        /\ pOut.response.status = 200

\* C30: a response returned by the interceptor never has status 429 or a
\* vendor status of 500..599: a returned response with such a status is the
\* synthesized 503, and the answer of an attempt that the vendor met with
\* 429, hint included, is never the one handed to the caller.
C30_RetryableStatusNeverReturned ==
  \A c \in Calls :
    (pc[c] = "returned" /\ result[c].kind = "response") =>
      /\ (result[c].status = 429 \/ result[c].status \in 500..599) =>
           /\ result[c].synthesized
           /\ result[c].status = SynthStatus
      /\ ~result[c].synthesized =>
           /\ attempts[c] # <<>>
           /\ result[c].status = attempts[c][Len(attempts[c])].out.status
           /\ result[c].endpoint = attempts[c][Len(attempts[c])].endpoint
      /\ \A k \in 1..Len(attempts[c]) :
           attempts[c][k].out = [kind |-> "response", status |-> 429] =>
             \/ result[c].synthesized
             \/ result[c].endpoint # attempts[c][k].endpoint

\* C30 witnesses: the vendor answered 429 and then 404, and the 404 is
\* returned; the vendor answered 429 and 500 on a list of two, and the
\* synthesized 503 is returned.
C30_Witness ==
  \E c \in Calls :
    /\ pc[c] = "returned"
    /\ Len(attempts[c]) = 2
    /\ attempts[c][1].out = [kind |-> "response", status |-> 429]
    /\ \/ /\ attempts[c][2].out = [kind |-> "response", status |-> 404]
          /\ result[c].status = 404
          /\ ~result[c].synthesized
       \/ /\ attempts[c][2].out = [kind |-> "response", status |-> 500]
          /\ result[c].synthesized
          /\ result[c].status = 503

C31_SeededExpiry ==
  \A c \in Calls :
    (pc[c] = "checkExpiry" /\ startSnap[c][1] = <<>>) =>
      LET t == cachedTokens[1]
          seeded == t.timestamp + t.expires_in * MsPerSec
          E == auth[c].expires
      IN
        /\ E # 0 => (seeded <= E /\ E - seeded < MsPerSec)
        /\ E = 0 => seeded = now + DefaultLifetime * MsPerSec

\* C32: however concurrent calls interleave, every request of a call
\* carries the access token this call obtained from its own refresh or,
\* when it did not refresh, the one it read and found unexpired; never a
\* token that another call wrote into the cache.
C32_OwnTokenInAttempts ==
  \A c \in Calls :
    \A k \in 1..Len(attempts[c]) :
      attempts[c][k].token =
        IF ownToken[c] # 0 THEN ownToken[c] ELSE auth[c].access

\* C33: when the refresh path of a call raises, because the refresh routine
\* or the write to the store failed, the cached token state keeps the
\* expiry it had before the refresh was attempted, so the token still counts
\* as expired and the next call refreshes again.
C33_FailedRefreshKeepsExpiry ==
  \A c \in Calls :
    (pc[c] = "thrown" /\ result[c] = thrown("RefreshFailure")) =>
      /\ cachedTokens # <<>>
      /\ isTokenExpired(cachedTokens[1], now)
      /\ startSnap[c][1] # <<>> =>
           /\ cachedTokens[1].timestamp = startSnap[c][1][1].timestamp
           /\ cachedTokens[1].expires_in = startSnap[c][1][1].expires_in
====
